---------------------------- MODULE Spec2Model ----------------------------
(***************************************************************************)
(* Model of src/expression.py: delayed computation of integer algebraic    *)
(* expressions.  An expression is an immutable tree (Literal, Negation,    *)
(* Absolute, Sum, Product, Power, FloorDivision); eval, __mod__, __str__   *)
(* and simplify are pure recursive functions of the tree and are modelled  *)
(* as recursive operators, one per method, dispatched on the node's type.  *)
(*                                                                         *)
(* Python values are modelled by outcome records [kind, val]:              *)
(*   "int"        an integer val with |val| <= MaxInt                      *)
(*   "float"      a Python float (int ** negative int, and +, *, -, abs,   *)
(*                % of one); its magnitude is not tracked                  *)
(*   "untracked"  a value the model does not follow: an integer beyond     *)
(*                MaxInt, or the result of an operation on a float whose   *)
(*                outcome (float, complex, exception) depends on the       *)
(*                float's magnitude.  The actions below are guarded so     *)
(*                that no recorded result is "untracked".                  *)
(*   otherwise    the name of the Python exception that was raised         *)
(***************************************************************************)
EXTENDS Integers, Sequences, FiniteSets, TLC

\* ------------------------------------------------------------- bounds
\* literals of the expressions built step by step range over -1 .. MaxLit
\* (-1, 0 and 1 are the literals simplify treats specially)
MinusOne == -1
MaxLit == 2
\* built expressions have at most MaxNodes nodes
MaxNodes == 5
\* moduli range over 1 .. MaxMod
MaxMod == 3
\* the literals of the example divisions a // b range over -MaxDiv .. MaxDiv
MaxDiv == 7
\* the literal factors of the example cancellations range over 1 .. MaxFactor
MaxFactor == 6
\* the example nestings of Sum and Product have MaxLeaves leaves
MaxLeaves == 4
\* integers are followed exactly up to this magnitude
MaxInt == 1000000
\* the calls of simplify() in one chain are counted up to MaxCalls
MaxCalls == 100

\* ------------------------------------------------------------- values
IntV(v) == [kind |-> "int", val |-> v]
Float == [kind |-> "float", val |-> 0]
Untracked == [kind |-> "untracked", val |-> 0]
Exc(name) == [kind |-> name, val |-> 0]

Exceptions == {"ZeroDivisionError", "ValueError", "TypeError"}
IsExc(r) == r.kind \in Exceptions
IsInt(r) == r.kind = "int"

AbsInt(v) == IF v < 0 THEN -v ELSE v
Capped(v) == IF AbsInt(v) <= MaxInt THEN IntV(v) ELSE Untracked

\* integer division rounding toward zero, on magnitudes (C's "/")
TruncDiv(a, b) ==
    LET q == AbsInt(a) \div AbsInt(b)
    IN  IF (a < 0) = (b < 0) THEN q ELSE -q

\* a // b on Python ints, b # 0: the truncated quotient, lowered by one when
\* the remainder is nonzero and its sign differs from the divisor's
\* (variant: the quotient left truncated, as C's "/" gives it)
IntFloorDivTrunc(a, b) == TruncDiv(a, b)
IntFloorDiv(a, b) ==
    LET q == TruncDiv(a, b)
        r == a - q * b
    IN  IF r # 0 /\ ((r < 0) # (b < 0)) THEN q - 1 ELSE q

\* a % n on Python ints, n > 0
IntMod(a, n) == a - n * IntFloorDiv(a, n)

\* math.gcd: the non-negative greatest common divisor, gcd(0, 0) = 0
RECURSIVE GcdNat(_, _)
GcdNat(a, b) == IF b = 0 THEN a ELSE GcdNat(b, a % b)
gcd(a, b) == GcdNat(AbsInt(a), AbsInt(b))

\* a ** b on Python ints with b >= 0 (0 ** 0 = 1)
RECURSIVE PowAcc(_, _, _)
PowAcc(a, b, acc) ==
    IF b = 0 THEN IntV(acc)
    ELSE IF AbsInt(acc) > MaxInt \div AbsInt(a) THEN Untracked
    ELSE PowAcc(a, b - 1, acc * a)
IntPow(a, b) ==
    IF b = 0 THEN IntV(1)
    ELSE IF a = 0 THEN IntV(0)
    ELSE IF a = 1 THEN IntV(1)
    ELSE IF a = -1 THEN IntV(IF b % 2 = 0 THEN 1 ELSE -1)
    ELSE PowAcc(a, b, 1)

\* pow(b, e, n) on ints with e >= 0, n > 0: (b ** e) % n
RECURSIVE ModPow(_, _, _)
ModPow(b, e, n) ==
    IF e = 0 THEN IntMod(1, n)
    ELSE LET h == ModPow(b, e \div 2, n)
         IN  IF e % 2 = 0 THEN IntMod(h * h, n)
             ELSE IntMod(IntMod(h * h, n) * IntMod(b, n), n)

\* ---- the Python operators on outcomes (neither operand an exception)
py_neg(a) ==
    IF IsInt(a) THEN IntV(-a.val) ELSE a

py_abs(a) ==
    IF IsInt(a) THEN IntV(AbsInt(a.val)) ELSE a

py_add(a, b) ==
    IF IsInt(a) /\ IsInt(b) THEN Capped(a.val + b.val)
    ELSE IF a.kind = "untracked" \/ b.kind = "untracked" THEN Untracked
    ELSE Float

py_mul(a, b) ==
    IF IsInt(a) /\ IsInt(b)
    THEN IF a.val = 0 \/ b.val = 0 THEN IntV(0)
         ELSE IF AbsInt(a.val) <= MaxInt \div AbsInt(b.val)
              THEN IntV(a.val * b.val) ELSE Untracked
    ELSE IF a.kind = "untracked" \/ b.kind = "untracked" THEN Untracked
    ELSE Float

py_floordiv(a, b) ==
    IF IsInt(b) /\ b.val = 0 THEN Exc("ZeroDivisionError")
    ELSE IF IsInt(a) /\ IsInt(b) THEN IntV(IntFloorDiv(a.val, b.val))
    ELSE IF a.kind = "float" /\ IsInt(b) THEN Float
    ELSE Untracked

\* a ** b: a negative int exponent gives a float (0 ** -k raises
\* ZeroDivisionError)
py_pow(a, b) ==
    IF IsInt(a) /\ IsInt(b)
    THEN IF b.val >= 0 THEN IntPow(a.val, b.val)
         ELSE IF a.val = 0 THEN Exc("ZeroDivisionError")
         ELSE Float
    ELSE Untracked

\* a % n for the int modulus n > 0
py_mod(a, n) ==
    IF IsInt(a) THEN IntV(IntMod(a.val, n)) ELSE a

\* pow(b, e, n), n > 0: modular exponentiation; a negative exponent uses the
\* inverse of b modulo n and raises ValueError when there is none; a float
\* argument raises TypeError
py_pow3(b, e, n) ==
    IF b.kind = "untracked" \/ e.kind = "untracked" THEN Untracked
    ELSE IF b.kind = "float" \/ e.kind = "float" THEN Exc("TypeError")
    ELSE IF e.val >= 0 THEN IntV(ModPow(b.val, e.val, n))
    ELSE IF gcd(b.val, n) # 1 THEN Exc("ValueError")
    ELSE LET inv == CHOOSE x \in 0 .. (n - 1) : IntMod(b.val * x, n) = IntMod(1, n)
         IN  IntV(ModPow(inv, -e.val, n))

\* ------------------------------------------------------------- trees
Literal(v) == [type |-> "Literal", value |-> v]
Negation(x) == [type |-> "Negation", value |-> x]
Absolute(x) == [type |-> "Absolute", value |-> x]
Sum(l, r) == [type |-> "Sum", left |-> l, right |-> r]
Product(l, r) == [type |-> "Product", left |-> l, right |-> r]
Power(l, r) == [type |-> "Power", left |-> l, right |-> r]
FloorDivision(l, r) == [type |-> "FloorDivision", left |-> l, right |-> r]

ZERO == Literal(0)
ONE == Literal(1)

is_literal(e) == e.type = "Literal"
isinstance(e, t) == e.type = t

\* Literal.__eq__ for a Literal `lit`: equal values when `x` is a Literal;
\* otherwise NotImplemented on both sides, and Python compares identities
literal_eq(x, lit) == is_literal(x) /\ x.value = lit.value

\* a binary Python operator over operands evaluated left to right: the first
\* exception raised propagates, otherwise the operator's `result` is returned
Apply2(l, r, result) ==
    IF IsExc(l) THEN l ELSE IF IsExc(r) THEN r ELSE result
Apply1(v, result) ==
    IF IsExc(v) THEN v ELSE result

\* ------------------------------------------------------ unwrap_parens
\* Binary.unwrap_parens: the operands of the maximal block of nodes of the
\* same type as `e`, left to right
RECURSIVE unwrap_parens(_)
\* (variant: only a left operand of the same type is unwrapped)
unwrap_left_only(e) ==
    (IF isinstance(e.left, e.type) THEN unwrap_parens(e.left) ELSE <<e.left>>)
        \o <<e.right>>
unwrap_parens(e) ==
    (IF isinstance(e.left, e.type) THEN unwrap_parens(e.left) ELSE <<e.left>>)
        \o
    (IF isinstance(e.right, e.type) THEN unwrap_parens(e.right) ELSE <<e.right>>)

\* --------------------------------------------------------------- eval
RECURSIVE eval(_)
Literal_eval(e) == Capped(e.value)
Sum_eval(e) ==
    Apply2(eval(e.left), eval(e.right), py_add(eval(e.left), eval(e.right)))
Product_eval(e) ==
    Apply2(eval(e.left), eval(e.right), py_mul(eval(e.left), eval(e.right)))
Power_eval(e) ==
    Apply2(eval(e.left), eval(e.right), py_pow(eval(e.left), eval(e.right)))
FloorDivision_eval(e) ==
    Apply2(eval(e.left), eval(e.right), py_floordiv(eval(e.left), eval(e.right)))
Negation_eval(e) == Apply1(eval(e.value), py_neg(eval(e.value)))
Absolute_eval(e) == Apply1(eval(e.value), py_abs(eval(e.value)))

eval(e) ==
    CASE e.type = "Literal" -> Literal_eval(e)
      [] e.type = "Sum" -> Sum_eval(e)
      [] e.type = "Product" -> Product_eval(e)
      [] e.type = "Power" -> Power_eval(e)
      [] e.type = "FloorDivision" -> FloorDivision_eval(e)
      [] e.type = "Negation" -> Negation_eval(e)
      [] e.type = "Absolute" -> Absolute_eval(e)

\* ------------------------------------------------------------ __mod__
RECURSIVE mod(_, _)
Literal_mod(e, n) == IntV(IntMod(e.value, n))
Sum_mod(e, n) ==
    LET l == mod(e.left, n)
        r == mod(e.right, n)
    IN  IF IsExc(l) THEN l ELSE IF IsExc(r) THEN r
        ELSE py_mod(py_add(l, r), n)
Product_mod(e, n) ==
    LET l == mod(e.left, n)
        r == mod(e.right, n)
    IN  IF IsExc(l) THEN l ELSE IF IsExc(r) THEN r
        ELSE py_mod(py_mul(l, r), n)
\* (variant: the exponent reduced modulo n as well)
Power_mod_reduced_exponent(e, n) ==
    LET b == mod(e.left, n)
        x == mod(e.right, n)
    IN  IF IsExc(b) THEN b ELSE IF IsExc(x) THEN x
        ELSE py_pow3(b, x, n)
Power_mod(e, n) ==
    LET b == mod(e.left, n)
        x == eval(e.right)
    IN  IF IsExc(b) THEN b ELSE IF IsExc(x) THEN x
        ELSE py_pow3(b, x, n)
FloorDivision_mod(e, n) ==
    LET v == eval(e)
    IN  IF IsExc(v) THEN v ELSE py_mod(v, n)
Negation_mod(e, n) ==
    LET v == mod(e.value, n)
    IN  IF IsExc(v) THEN v ELSE py_neg(v)
Absolute_mod(e, n) ==
    LET v == eval(e.value)
    IN  IF IsExc(v) THEN v ELSE py_abs(py_mod(v, n))

mod(e, n) ==
    CASE e.type = "Literal" -> Literal_mod(e, n)
      [] e.type = "Sum" -> Sum_mod(e, n)
      [] e.type = "Product" -> Product_mod(e, n)
      [] e.type = "Power" -> Power_mod(e, n)
      [] e.type = "FloorDivision" -> FloorDivision_mod(e, n)
      [] e.type = "Negation" -> Negation_mod(e, n)
      [] e.type = "Absolute" -> Absolute_mod(e, n)

\* ------------------------------------------------------------ __str__
\* sep.join(parts)
RECURSIVE join(_, _)
join(sep, parts) ==
    IF Len(parts) = 0 THEN ""
    ELSE IF Len(parts) = 1 THEN parts[1]
    ELSE parts[1] \o sep \o join(sep, Tail(parts))

RECURSIVE str(_)
map_str(es) == [i \in 1 .. Len(es) |-> str(es[i])]
Literal_str(e) == ToString(e.value)
Sum_str(e) == "(" \o join(" + ", map_str(unwrap_parens(e))) \o ")"
Product_str(e) == "(" \o join("*", map_str(unwrap_parens(e))) \o ")"
Power_str(e) == str(e.left) \o "^" \o str(e.right)
FloorDivision_str(e) == "(" \o str(e.left) \o "/" \o str(e.right) \o ")"
Negation_str(e) == "-" \o str(e.value)
Absolute_str(e) == "|" \o str(e.value) \o "|"

str(e) ==
    CASE e.type = "Literal" -> Literal_str(e)
      [] e.type = "Sum" -> Sum_str(e)
      [] e.type = "Product" -> Product_str(e)
      [] e.type = "Power" -> Power_str(e)
      [] e.type = "FloorDivision" -> FloorDivision_str(e)
      [] e.type = "Negation" -> Negation_str(e)
      [] e.type = "Absolute" -> Absolute_str(e)

\* ------------------------------------------------------------ helpers
\* split(filter_fn, expressions): (filter(...), filterfalse(...)), both lazy
\* over the SAME `expressions`.  Over a list each iterates the list on its
\* own.  Over a one-shot iterator (`shared`, a generator) they draw from one
\* stream: the callers consume the first result entirely before the second,
\* so the first sees every item and the second finds the stream exhausted.
\* `filter_fn` is the name of the predicate; is_literal is the only one passed.
split(filter_fn, expressions, shared) ==
    LET keep(x) == filter_fn = "is_literal" /\ is_literal(x)
    IN  << SelectSeq(expressions, keep),
           IF shared THEN << >>
           ELSE SelectSeq(expressions, LAMBDA x : ~keep(x)) >>

extract_literals(expressions, shared) ==
    split("is_literal", expressions, shared)

\* functools.reduce(op, items) without an initial value: the left fold; an
\* empty `items` raises TypeError (Len = 0 is tested by the callers)
\* `cls` is the class called as the operator: Sum or Product.
reduce(cls, items) ==
    LET f[i \in 1 .. Len(items)] ==
            IF i = 1 THEN items[1]
            ELSE [type |-> cls, left |-> f[i - 1], right |-> items[i]]
    IN  f[Len(items)]

\* sum(x.eval() for x in literals)
RECURSIVE sum_values(_)
sum_values(literals) ==
    IF Len(literals) = 0 THEN 0
    ELSE literals[1].value + sum_values(Tail(literals))

\* results of simplify: a tree, an exception, or "untracked"
Ok(t) == [kind |-> "tree", tree |-> t]
Raise(name) == [kind |-> name, tree |-> ZERO]
IsTree(s) == s.kind = "tree"

\* the first result of `rs` that is not a tree (the exception that stops an
\* in-order traversal), or none
FirstFailure(rs) ==
    IF \E i \in 1 .. Len(rs) : ~IsTree(rs[i])
    THEN rs[CHOOSE i \in 1 .. Len(rs) :
                /\ ~IsTree(rs[i])
                /\ \A j \in 1 .. (i - 1) : IsTree(rs[j])]
    ELSE Ok(ZERO)

\* ----------------------------------------------------------- simplify
RECURSIVE simplify(_)

Literal_simplify(e) == Ok(e)

Sum_simplify(e) ==
    LET results == [i \in 1 .. Len(unwrap_parens(e)) |->
                        simplify(unwrap_parens(e)[i])]
        summands == [i \in 1 .. Len(results) |-> results[i].tree]
        parts == extract_literals(summands, TRUE)
        literals == parts[1]
        nonliterals == parts[2]
        literal == Literal(sum_values(literals))
        final_summands == IF literal_eq(literal, ZERO) THEN nonliterals
                          ELSE nonliterals \o <<literal>>
    IN  IF ~IsTree(FirstFailure(results)) THEN FirstFailure(results)
        ELSE IF Len(final_summands) = 0 THEN Raise("TypeError")
        ELSE Ok(reduce("Sum", final_summands))

Product_simplify(e) ==
    LET l == simplify(e.left)
        r == simplify(e.right)
        left == l.tree
        right == r.tree
    IN  IF ~IsTree(l) THEN l
        ELSE IF ~IsTree(r) THEN r
        ELSE IF literal_eq(left, ONE) THEN Ok(right)
        ELSE IF literal_eq(right, ONE) THEN Ok(left)
        ELSE IF literal_eq(left, ZERO) \/ literal_eq(right, ZERO) THEN Ok(ZERO)
        ELSE IF isinstance(left, "FloorDivision")
        THEN IF isinstance(right, "FloorDivision")
             THEN simplify(FloorDivision(Product(left.left, right.left),
                                         Product(left.right, right.right)))
             ELSE simplify(FloorDivision(Product(left.left, right), left.right))
        ELSE IF isinstance(right, "FloorDivision")
        THEN simplify(FloorDivision(Product(left, right.left), right.right))
        ELSE Ok(Product(left, right))

\* `if exp % 2`: the truth value of exp.__mod__(2)
Power_simplify(e) ==
    LET b == simplify(e.left)
        x == simplify(e.right)
        base == b.tree
        exp == x.tree
        parity == mod(exp, 2)
    IN  IF ~IsTree(b) THEN b
        ELSE IF ~IsTree(x) THEN x
        ELSE IF literal_eq(base, ONE) THEN Ok(base)
        ELSE IF literal_eq(base, Literal(-1))
        THEN IF IsExc(parity) THEN Raise(parity.kind)
             ELSE IF ~IsInt(parity) THEN Raise("untracked")
             ELSE IF parity.val # 0 THEN Ok(ONE)
             ELSE Ok(base)
        ELSE IF literal_eq(exp, ONE) THEN Ok(base)
        ELSE IF literal_eq(exp, ZERO) THEN Ok(ONE)
        ELSE Ok(Power(base, exp))

\* the nested loops of lines 294-300 from iteration (i, j) on, over the values
\* of num_literals and den_literals; `num` is the value read from
\* num_literals[i] when the outer iteration i began (line 295), `den` is read
\* anew from den_literals[j] in every inner iteration (line 297)
RECURSIVE cancel(_, _, _, _, _)
cancel(nums, dens, i, j, num) ==
    IF i > Len(nums) THEN [kind |-> "ok", nums |-> nums, dens |-> dens]
    ELSE IF j > Len(dens)
    THEN cancel(nums, dens, i + 1, 1,
                IF i + 1 <= Len(nums) THEN nums[i + 1] ELSE 0)
    ELSE LET den == dens[j]
             d == gcd(num, den)
         IN  IF d = 0
             THEN [kind |-> "ZeroDivisionError", nums |-> nums, dens |-> dens]
             ELSE cancel([nums EXCEPT ![i] = IntFloorDiv(num, d)],
                         [dens EXCEPT ![j] = IntFloorDiv(den, d)],
                         i, j + 1, num)

values_of(literals) == [i \in 1 .. Len(literals) |-> literals[i].value]
literals_of(vals) == [i \in 1 .. Len(vals) |-> Literal(vals[i])]

FloorDivision_simplify(e) ==
    LET n == simplify(e.left)
        d == simplify(e.right)
        numerator == n.tree
        denominator == d.tree
        numerators == IF isinstance(numerator, "Product")
                      THEN unwrap_parens(numerator)
                      ELSE IF isinstance(numerator, "Literal")
                      THEN <<numerator>> ELSE << >>
        denominators == IF isinstance(denominator, "Product")
                        THEN unwrap_parens(denominator)
                        ELSE <<denominator>>
        nparts == extract_literals(numerators, FALSE)
        dparts == extract_literals(denominators, FALSE)
        done == cancel(values_of(nparts[1]), values_of(dparts[1]), 1, 1,
                       IF Len(nparts[1]) > 0 THEN nparts[1][1].value ELSE 0)
        numerator2 == simplify(reduce("Product", literals_of(done.nums) \o nparts[2]))
        denominator2 == simplify(reduce("Product", literals_of(done.dens) \o dparts[2]))
    IN  IF ~IsTree(n) THEN n
        ELSE IF ~IsTree(d) THEN d
        ELSE IF literal_eq(denominator, ONE) THEN Ok(numerator)
        ELSE IF literal_eq(numerator, ZERO) THEN Ok(ZERO)
        ELSE IF isinstance(denominator, "FloorDivision")
        THEN simplify(Product(numerator,
                              FloorDivision(denominator.right, denominator.left)))
        ELSE IF isinstance(numerator, "FloorDivision")
        THEN simplify(FloorDivision(numerator.left,
                                    Product(numerator.right, denominator)))
        ELSE IF Len(numerators) > 0 /\ Len(denominators) > 0
        THEN IF done.kind # "ok" THEN Raise(done.kind)
             ELSE IF ~IsTree(numerator2) THEN numerator2
             ELSE IF ~IsTree(denominator2) THEN denominator2
             ELSE IF literal_eq(denominator2.tree, ONE) THEN numerator2
             ELSE Ok(FloorDivision(numerator2.tree, denominator2.tree))
        ELSE Ok(FloorDivision(numerator, denominator))

Negation_simplify(e) ==
    LET v == simplify(e.value)
        value == v.tree
    IN  IF ~IsTree(v) THEN v
        ELSE IF isinstance(value, "Negation") THEN Ok(value.value)
        ELSE IF isinstance(value, "Literal") THEN Ok(Literal(-value.value))
        ELSE Ok(Negation(value))

\* (variant: no rule for the absolute value of a division)
Absolute_simplify_no_division(e) ==
    LET v == simplify(e.value)
        value == v.tree
    IN  IF ~IsTree(v) THEN v
        ELSE IF isinstance(value, "Absolute") THEN Ok(value)
        ELSE IF isinstance(value, "Literal") THEN Ok(Literal(AbsInt(value.value)))
        ELSE IF isinstance(value, "Negation") THEN Ok(value.value)
        ELSE IF isinstance(value, "Product")
        THEN simplify(Product(Absolute(value.left), Absolute(value.right)))
        ELSE Ok(e)
Absolute_simplify(e) ==
    LET v == simplify(e.value)
        value == v.tree
    IN  IF ~IsTree(v) THEN v
        ELSE IF isinstance(value, "Absolute") THEN Ok(value)
        ELSE IF isinstance(value, "Literal") THEN Ok(Literal(AbsInt(value.value)))
        ELSE IF isinstance(value, "Negation") THEN Ok(value.value)
        ELSE IF isinstance(value, "FloorDivision")
        THEN simplify(FloorDivision(Absolute(value.left), Absolute(value.right)))
        ELSE IF isinstance(value, "Product")
        THEN simplify(Product(Absolute(value.left), Absolute(value.right)))
        ELSE Ok(e)

simplify(e) ==
    CASE e.type = "Literal" -> Literal_simplify(e)
      [] e.type = "Sum" -> Sum_simplify(e)
      [] e.type = "Product" -> Product_simplify(e)
      [] e.type = "Power" -> Power_simplify(e)
      [] e.type = "FloorDivision" -> FloorDivision_simplify(e)
      [] e.type = "Negation" -> Negation_simplify(e)
      [] e.type = "Absolute" -> Absolute_simplify(e)

\* Expression.__int__: self.simplify().eval()
int(e) ==
    LET s == simplify(e)
    IN  IF IsTree(s) THEN eval(s.tree) ELSE [kind |-> s.kind, val |-> 0]

\* ------------------------------------------- the call chain of simplify
\* the operands a simplify method calls simplify() on first, in call order
\* (Sum: the flattened summands, drawn one by one from the generator)
operands(e) ==
    CASE e.type = "Literal" -> << >>
      [] e.type = "Sum" -> unwrap_parens(e)
      [] e.type \in {"Product", "Power", "FloorDivision"} -> <<e.left, e.right>>
      [] e.type \in {"Negation", "Absolute"} -> <<e.value>>

\* the nodes a simplify method builds out of its simplified operands and
\* calls simplify() on again, in call order
Product_again(e) ==
    LET left == simplify(e.left).tree
        right == simplify(e.right).tree
    IN  IF literal_eq(left, ONE) \/ literal_eq(right, ONE) THEN << >>
        ELSE IF literal_eq(left, ZERO) \/ literal_eq(right, ZERO) THEN << >>
        ELSE IF isinstance(left, "FloorDivision")
        THEN IF isinstance(right, "FloorDivision")
             THEN <<FloorDivision(Product(left.left, right.left),
                                  Product(left.right, right.right))>>
             ELSE <<FloorDivision(Product(left.left, right), left.right)>>
        ELSE IF isinstance(right, "FloorDivision")
        THEN <<FloorDivision(Product(left, right.left), right.right)>>
        ELSE << >>

FloorDivision_again(e) ==
    LET numerator == simplify(e.left).tree
        denominator == simplify(e.right).tree
        numerators == IF isinstance(numerator, "Product")
                      THEN unwrap_parens(numerator)
                      ELSE IF isinstance(numerator, "Literal")
                      THEN <<numerator>> ELSE << >>
        denominators == IF isinstance(denominator, "Product")
                        THEN unwrap_parens(denominator)
                        ELSE <<denominator>>
        nparts == extract_literals(numerators, FALSE)
        dparts == extract_literals(denominators, FALSE)
        done == cancel(values_of(nparts[1]), values_of(dparts[1]), 1, 1,
                       IF Len(nparts[1]) > 0 THEN nparts[1][1].value ELSE 0)
    IN  IF literal_eq(denominator, ONE) THEN << >>
        ELSE IF literal_eq(numerator, ZERO) THEN << >>
        ELSE IF isinstance(denominator, "FloorDivision")
        THEN <<Product(numerator,
                       FloorDivision(denominator.right, denominator.left))>>
        ELSE IF isinstance(numerator, "FloorDivision")
        THEN <<FloorDivision(numerator.left,
                             Product(numerator.right, denominator))>>
        ELSE IF Len(numerators) > 0 /\ Len(denominators) > 0 /\ done.kind = "ok"
        THEN << reduce("Product", literals_of(done.nums) \o nparts[2]),
                reduce("Product", literals_of(done.dens) \o dparts[2]) >>
        ELSE << >>

\* (variant: an Absolute no rule applies to is rebuilt and simplified again)
Absolute_again_rebuilt(e) ==
    LET value == simplify(e.value).tree
    IN  IF isinstance(value, "FloorDivision")
        THEN <<FloorDivision(Absolute(value.left), Absolute(value.right))>>
        ELSE IF isinstance(value, "Product")
        THEN <<Product(Absolute(value.left), Absolute(value.right))>>
        ELSE IF value.type \in {"Absolute", "Literal", "Negation"} THEN << >>
        ELSE <<Absolute(value)>>
Absolute_again(e) ==
    LET value == simplify(e.value).tree
    IN  IF isinstance(value, "FloorDivision")
        THEN <<FloorDivision(Absolute(value.left), Absolute(value.right))>>
        ELSE IF isinstance(value, "Product")
        THEN <<Product(Absolute(value.left), Absolute(value.right))>>
        ELSE << >>

again(e) ==
    CASE e.type = "Product" -> Product_again(e)
      [] e.type = "FloorDivision" -> FloorDivision_again(e)
      [] e.type = "Absolute" -> Absolute_again(e)
      [] OTHER -> << >>

\* the number of calls of simplify() in the chain e.simplify() starts, itself
\* included, counted while `fuel` lasts: a chain of more than `fuel` calls
\* gives a number above `fuel`.  calls_in_turn counts the calls of simplify()
\* on `trees` one after another; an exception ends the chain.
RECURSIVE simplify_calls(_, _)
RECURSIVE calls_in_turn(_, _)
calls_in_turn(trees, fuel) ==
    IF Len(trees) = 0 THEN 0
    ELSE LET used == simplify_calls(trees[1], fuel)
         IN  IF used > fuel \/ ~IsTree(simplify(trees[1])) THEN used
             ELSE used + calls_in_turn(Tail(trees), fuel - used)

simplify_calls(e, fuel) ==
    IF fuel <= 0 THEN 1
    ELSE LET first == calls_in_turn(operands(e), fuel - 1)
             failed == \E i \in 1 .. Len(operands(e)) :
                            ~IsTree(simplify(operands(e)[i]))
         IN  IF first > fuel - 1 \/ failed THEN 1 + first
             ELSE 1 + first + calls_in_turn(again(e), fuel - 1 - first)

\* ------------------------------------------------------------- inputs
\* the literals of the expressions built step by step
Lits == MinusOne .. MaxLit

\* the number of nodes of a tree
RECURSIVE Size(_)
Size(e) ==
    IF e.type = "Literal" THEN 1
    ELSE IF e.type \in {"Negation", "Absolute"} THEN 1 + Size(e.value)
    ELSE 1 + Size(e.left) + Size(e.right)

\* the expression of the __main__ block:
\* abs(Literal(-2) // -3) // (Literal(2) // 3)
MainExp ==
    FloorDivision(Absolute(FloorDivision(Literal(-2), Literal(-3))),
                  FloorDivision(Literal(2), Literal(3)))

\* a // b for literals of either sign
DivisionTrees ==
    {FloorDivision(Literal(a), Literal(b)) :
        a \in (0 - MaxDiv) .. MaxDiv, b \in (0 - MaxDiv) .. MaxDiv}

\* divisions of products with literal factors: one or two factors above
\* (the second a literal or a non-literal), one or two literals below
Factors == {Literal(v) : v \in 1 .. MaxFactor}
CancelTrees ==
    LET others == {Power(Literal(2), Literal(3))}
        nums == Factors \cup {Product(a, x) : a \in Factors, x \in Factors \cup others}
        dens == Factors \cup {Product(c, d) : c \in Factors, d \in Factors}
    IN  {FloorDivision(num, den) : num \in nums, den \in dens}

\* every nesting of Sum and Product nodes over the leaves lo, lo + 1, ..., hi
\* in this order
RECURSIVE AssocTrees(_, _)
AssocTrees(lo, hi) ==
    IF lo = hi THEN {Literal(lo)}
    ELSE UNION {{Sum(l, r) : l \in AssocTrees(lo, m), r \in AssocTrees(m + 1, hi)}
                \cup {Product(l, r) : l \in AssocTrees(lo, m),
                                      r \in AssocTrees(m + 1, hi)} :
                m \in lo .. (hi - 1)}

Examples ==
    {MainExp} \cup DivisionTrees \cup CancelTrees \cup AssocTrees(1, MaxLeaves)

\* -------------------------------------------------------------- state
VARIABLES
    stack,  \* the expressions built so far, innermost operands last; the
            \* operations below apply to the one expression of a full build
    pc,     \* the last operation applied
    n,      \* the modulus of the last exp % n (0: none)
    simp,   \* the result of exp.simplify()
    simp2,  \* the result of simplifying that result again
    out,    \* the result of the last eval / % / int
    text    \* the result of str(exp)

vars == <<stack, pc, n, simp, simp2, out, text>>

NoTree == [kind |-> "none", tree |-> ZERO]
NoValue == [kind |-> "none", val |-> 0]

Tracked(r) == r.kind # "untracked"

\* the expression, once the build left exactly one
exp == stack[1]
Built == pc = "built" /\ Len(stack) = 1

\* the nodes of the tree that joins everything on the stack
RECURSIVE Nodes(_)
Nodes(st) == IF Len(st) = 0 THEN 0 ELSE Size(st[1]) + 1 + Nodes(Tail(st))
Room(st) == MaxNodes - (Nodes(st) - 1)

Init ==
    /\ stack \in {<< >>} \cup {<<t>> : t \in Examples}
    /\ pc = "built"
    /\ n = 0
    /\ simp = NoTree
    /\ simp2 = NoTree
    /\ out = NoValue
    /\ text = ""

\* ---- construction: Literal(v) and the operator overloads
Top == stack[Len(stack)]
Below == stack[Len(stack) - 1]
Replace1(e) == [stack EXCEPT ![Len(stack)] = e]
Replace2(e) == Append(SubSeq(stack, 1, Len(stack) - 2), e)

NewLiteral ==
    \E v \in Lits :
        /\ pc = "built"
        /\ (Len(stack) = 0 \/ Room(stack) >= 2)
        /\ stack' = Append(stack, Literal(v))
        /\ UNCHANGED <<pc, n, simp, simp2, out, text>>

\* left + right
Add ==
    /\ pc = "built" /\ Len(stack) >= 2
    /\ stack' = Replace2(Sum(Below, Top))
    /\ UNCHANGED <<pc, n, simp, simp2, out, text>>

\* left - right
Sub ==
    /\ pc = "built" /\ Len(stack) >= 2 /\ Room(stack) >= 1
    /\ stack' = Replace2(Sum(Below, Negation(Top)))
    /\ UNCHANGED <<pc, n, simp, simp2, out, text>>

\* left * right
Mul ==
    /\ pc = "built" /\ Len(stack) >= 2
    /\ stack' = Replace2(Product(Below, Top))
    /\ UNCHANGED <<pc, n, simp, simp2, out, text>>

\* left // right
FloorDiv ==
    /\ pc = "built" /\ Len(stack) >= 2
    /\ stack' = Replace2(FloorDivision(Below, Top))
    /\ UNCHANGED <<pc, n, simp, simp2, out, text>>

\* left ** right
Pow ==
    /\ pc = "built" /\ Len(stack) >= 2
    /\ stack' = Replace2(Power(Below, Top))
    /\ UNCHANGED <<pc, n, simp, simp2, out, text>>

\* -value
Neg ==
    /\ pc = "built" /\ Len(stack) >= 1 /\ Room(stack) >= 1
    /\ stack' = Replace1(Negation(Top))
    /\ UNCHANGED <<pc, n, simp, simp2, out, text>>

\* abs(value)
Abs ==
    /\ pc = "built" /\ Len(stack) >= 1 /\ Room(stack) >= 1
    /\ stack' = Replace1(Absolute(Top))
    /\ UNCHANGED <<pc, n, simp, simp2, out, text>>

\* ---- the operations on the built expression
\* simp = exp.simplify()
Simplify ==
    /\ Built
    /\ Tracked(simplify(exp))
    /\ simp' = simplify(exp)
    /\ pc' = "simplified"
    /\ UNCHANGED <<stack, n, simp2, out, text>>

\* simp.simplify(), for a simp that is a tree
SimplifyAgain ==
    /\ pc = "simplified"
    /\ IsTree(simp)
    /\ Tracked(simplify(simp.tree))
    /\ simp2' = simplify(simp.tree)
    /\ pc' = "resimplified"
    /\ UNCHANGED <<stack, n, simp, out, text>>

\* simp.eval(), for a simp that is a tree
EvalSimplified ==
    /\ pc = "simplified"
    /\ IsTree(simp)
    /\ Tracked(eval(simp.tree))
    /\ out' = eval(simp.tree)
    /\ pc' = "simplified_evaluated"
    /\ UNCHANGED <<stack, n, simp, simp2, text>>

\* exp.eval()
Eval ==
    /\ Built
    /\ Tracked(eval(exp))
    /\ out' = eval(exp)
    /\ pc' = "evaluated"
    /\ UNCHANGED <<stack, n, simp, simp2, text>>

\* int(exp)
ToInt ==
    /\ Built
    /\ Tracked(int(exp))
    /\ out' = int(exp)
    /\ pc' = "converted"
    /\ UNCHANGED <<stack, n, simp, simp2, text>>

\* exp % m
ModReduce ==
    \E m \in 1 .. MaxMod :
        /\ Built
        /\ Tracked(mod(exp, m))
        /\ n' = m
        /\ out' = mod(exp, m)
        /\ pc' = "reduced"
        /\ UNCHANGED <<stack, simp, simp2, text>>

\* str(exp)
Format ==
    /\ Built
    /\ text' = str(exp)
    /\ pc' = "printed"
    /\ UNCHANGED <<stack, n, simp, simp2, out>>

Next ==
    \/ NewLiteral
    \/ Add
    \/ Sub
    \/ Mul
    \/ FloorDiv
    \/ Pow
    \/ Neg
    \/ Abs
    \/ Simplify
    \/ SimplifyAgain
    \/ EvalSimplified
    \/ Eval
    \/ ToInt
    \/ ModReduce
    \/ Format

Spec == Init /\ [][Next]_vars

\* ------------------------------------------------------------- claims
Original == eval(exp)
Succeeded == IsInt(Original)

\* C1: simplify preserves value: when exp.eval() returns an integer,
\* exp.simplify() returns a tree whose eval() returns the same integer.
C1_SimplifyPreservesValue ==
    /\ (pc = "simplified" /\ Succeeded) => IsTree(simp)
    /\ (pc = "simplified_evaluated" /\ Succeeded) => out = Original

\* a tree built only from Literal, Sum, Product, Power and Negation nodes
RECURSIVE Distributive(_)
Distributive(e) ==
    CASE e.type = "Literal" -> TRUE
      [] e.type = "Negation" -> Distributive(e.value)
      [] e.type \in {"Sum", "Product", "Power"} ->
            Distributive(e.left) /\ Distributive(e.right)
      [] OTHER -> FALSE

Residue == IntMod(Original.val, n)

\* C2 as stated: for a tree of Literal, Sum, Product, Power and Negation
\* nodes whose eval() returns an integer, exp % n equals exp.eval() % n, the
\* residue in 0 .. n-1, also when the root is a Negation.
C2_CanonicalResidue ==
    (pc = "reduced" /\ Distributive(exp) /\ Succeeded) =>
        out = IntV(Residue)

\* C2 (amended): for such a tree exp % n is an integer congruent to
\* exp.eval() modulo n; it is the residue exp.eval() % n itself unless the
\* root is a Negation; a Negation root returns the negated result of its
\* child, a number in -(n-1) .. n-1 that need not be the canonical residue.
C2_ModularConsistency ==
    (pc = "reduced" /\ Distributive(exp) /\ Succeeded) =>
        /\ IsInt(out)
        /\ IntMod(out.val, n) = Residue
        /\ exp.type # "Negation" => out.val = Residue
        /\ exp.type = "Negation" =>
                /\ out.val \in (1 - n) .. (n - 1)
                /\ out.val = 0 - mod(exp.value, n).val

\* a Negation root over a power, reduced to a negative number
C2_Witness ==
    /\ pc = "reduced"
    /\ Distributive(exp)
    /\ Succeeded
    /\ exp.type = "Negation"
    /\ exp.value.type = "Power"
    /\ out.val < 0

\* C3: idempotence: when exp.simplify() returns a tree, simplifying that tree
\* again returns a tree with the same str().
C3_Idempotence ==
    pc = "resimplified" =>
        /\ IsTree(simp2)
        /\ str(simp2.tree) = str(simp.tree)

\* C4: identity laws: Product(x, Literal(1)), Sum(x, Literal(0)) and
\* Power(x, Literal(1)) simplify to what x simplifies to, and
\* Power(x, Literal(0)) simplifies to Literal(1), for every x whose own
\* simplify() returns a tree.
C4_IdentityLaws ==
    (pc = "simplified" /\ exp.type \in {"Sum", "Product", "Power"}
                       /\ IsTree(simplify(exp.left))) =>
        /\ (exp.type = "Product" /\ exp.right = ONE) => simp = simplify(exp.left)
        /\ (exp.type = "Sum" /\ exp.right = ZERO) => simp = simplify(exp.left)
        /\ (exp.type = "Power" /\ exp.right = ONE) => simp = simplify(exp.left)
        /\ (exp.type = "Power" /\ exp.right = ZERO) => simp = Ok(ONE)

\* a Literal, or a Product all of whose factors are Literals
LiteralFactors(e) ==
    \/ is_literal(e)
    \/ /\ e.type = "Product"
       /\ \A i \in 1 .. Len(unwrap_parens(e)) : is_literal(unwrap_parens(e)[i])

\* C5: factor cancellation: a division whose numerator and denominator are
\* Literals or Products of literal factors (any number on either side), and
\* whose eval() returns an integer, simplifies to a tree that evaluates to
\* the same integer.
C5_CancellationPreservesValue ==
    (pc \in {"simplified", "simplified_evaluated"}
        /\ exp.type = "FloorDivision"
        /\ LiteralFactors(exp.left) /\ LiteralFactors(exp.right)
        /\ Succeeded) =>
        /\ IsTree(simp)
        /\ pc = "simplified_evaluated" => out = Original

RECURSIVE Grouped(_, _)
Grouped(e, parent) ==
    CASE e.type = "Literal" -> ToString(e.value)
      [] e.type = "Sum" ->
            LET inner == Grouped(e.left, "Sum") \o " + " \o Grouped(e.right, "Sum")
            IN  IF parent = "Sum" THEN inner ELSE "(" \o inner \o ")"
      [] e.type = "Product" ->
            LET inner == Grouped(e.left, "Product") \o "*"
                            \o Grouped(e.right, "Product")
            IN  IF parent = "Product" THEN inner ELSE "(" \o inner \o ")"
      [] e.type = "Power" ->
            Grouped(e.left, "Power") \o "^" \o Grouped(e.right, "Power")
      [] e.type = "FloorDivision" ->
            "(" \o Grouped(e.left, "FloorDivision") \o "/"
                \o Grouped(e.right, "FloorDivision") \o ")"
      [] e.type = "Negation" -> "-" \o Grouped(e.value, "Negation")
      [] e.type = "Absolute" -> "|" \o Grouped(e.value, "Absolute") \o "|"

\* C7: flattened formatting: str(exp) has one parenthesised group for every
\* maximal block of nested Sum nodes (operands joined by " + ", left to
\* right) and of nested Product nodes (joined by "*"), whatever the nesting;
\* a block never extends across a node of another type.
C7_FlattenedFormatting ==
    pc = "printed" =>
        /\ text = Grouped(exp, "none")
        /\ exp = Sum(Sum(Literal(1), Literal(2)), Literal(3)) =>
                text = "(1 + 2 + 3)"

\* a Sum nested to the right with a Product inside
C7_Witness ==
    /\ pc = "printed"
    /\ exp = Sum(Literal(1), Sum(Product(Literal(2), Literal(3)), Literal(4)))
    /\ text = "(1 + (2*3) + 4)"

\* q is the floor of a / b: the integer with q <= a/b < q + 1
IsFloor(q, a, b) ==
    IF b > 0 THEN q * b <= a /\ a < (q + 1) * b
    ELSE q * b >= a /\ a > (q + 1) * b

\* C8: floor division: when numerator and denominator evaluate to integers a
\* and b, FloorDivision.eval() returns floor(a / b) for b # 0 of either sign
\* (-7 // 2 is -4) and raises ZeroDivisionError for b = 0.
C8_FloorDivisionEval ==
    (pc = "evaluated" /\ exp.type = "FloorDivision"
        /\ IsInt(eval(exp.left)) /\ IsInt(eval(exp.right))) =>
        LET a == eval(exp.left).val
            b == eval(exp.right).val
        IN  /\ b = 0 => out = Exc("ZeroDivisionError")
            /\ b # 0 => IsInt(out) /\ IsFloor(out.val, a, b)
            /\ (a = -7 /\ b = 2) => out = IntV(-4)

C8_Witness ==
    /\ pc = "evaluated"
    /\ exp = FloorDivision(Literal(-7), Literal(2))
    /\ out = IntV(-4)

\* C9: a negative exponent is an error: a Power whose exponent evaluates to a
\* negative integer (its base evaluating to an integer) raises on eval() and
\* on % n; neither returns a value.
C9_NegativeExponentRaises ==
    (pc \in {"evaluated", "reduced"} /\ exp.type = "Power"
        /\ IsInt(eval(exp.left))
        /\ IsInt(eval(exp.right)) /\ eval(exp.right).val < 0) =>
        IsExc(out)

\* C10: simplify() never raises ZeroDivisionError.
C10_SimplifyNeverDividesByZero ==
    pc = "simplified" => simp.kind # "ZeroDivisionError"

\* C11: modular evaluation of the variants that fall back on a full
\* evaluation: for a tree whose root is an Absolute or a FloorDivision and
\* whose eval() returns an integer, exp % n equals exp.eval() % n, the
\* residue in 0 .. n-1, also when the child of the Absolute is negative.
C11_FallbackResidue ==
    (pc = "reduced" /\ exp.type \in {"Absolute", "FloorDivision"}
        /\ Succeeded) =>
        out = IntV(IntMod(Original.val, n))

\* the summands of a Sum after flattening, each simplified
SimplifiedSummands(e) ==
    [i \in 1 .. Len(unwrap_parens(e)) |-> simplify(unwrap_parens(e)[i])]

\* the non-literal trees of `trees` in their order, followed by one Literal
\* holding the sum of the literal ones when that sum is not zero
KeptSummands(trees) ==
    LET literals == SelectSeq(trees, is_literal)
        nonliterals == SelectSeq(trees, LAMBDA x : ~is_literal(x))
        total == sum_values(literals)
    IN  IF total = 0 THEN nonliterals ELSE nonliterals \o <<Literal(total)>>

\* C12: Sum.simplify keeps every summand: when every summand of the flattened
\* Sum simplifies to a tree, and a summand other than a zero literal remains,
\* the result is the left-fold Sum of the non-literal summands in their
\* order, followed by one Literal holding the nonzero sum of the literal ones.
C12_SumKeepsEverySummand ==
    (pc = "simplified" /\ exp.type = "Sum"
        /\ \A i \in 1 .. Len(SimplifiedSummands(exp)) :
                IsTree(SimplifiedSummands(exp)[i])) =>
        LET trees == [i \in 1 .. Len(SimplifiedSummands(exp)) |->
                        SimplifiedSummands(exp)[i].tree]
        IN  Len(KeptSummands(trees)) > 0 =>
                simp = Ok(reduce("Sum", KeptSummands(trees)))

\* C13: Power.simplify with base -1: when the base simplifies to Literal(-1)
\* and the exponent (which simplifies to a tree) evaluates to an integer
\* k >= 0, the result is Literal(1) for even k and Literal(-1) for odd k.
C13_MinusOneParity ==
    (pc = "simplified" /\ exp.type = "Power"
        /\ simplify(exp.left) = Ok(Literal(MinusOne))
        /\ IsTree(simplify(exp.right))
        /\ IsInt(eval(exp.right)) /\ eval(exp.right).val >= 0) =>
        simp = Ok(IF eval(exp.right).val % 2 = 0 THEN ONE
                  ELSE Literal(MinusOne))

\* C14: simplify terminates: the chain of simplify() calls that
\* exp.simplify() starts, the calls on the nodes Product.simplify,
\* FloorDivision.simplify and Absolute.simplify build and simplify again
\* included, ends after at most MaxCalls calls, with a tree or an exception.
C14_SimplifyTerminates ==
    pc = "simplified" =>
        /\ simplify_calls(exp, MaxCalls) \in 1 .. MaxCalls
        /\ IsTree(simp) \/ simp.kind \in Exceptions

\* a division by a division: FloorDivision.simplify builds a Product and
\* simplifies it, Product.simplify builds a FloorDivision and simplifies that,
\* so the chain has more calls than the expression has nodes
C14_Witness ==
    /\ pc = "simplified"
    /\ exp.type = "FloorDivision"
    /\ Len(again(exp)) = 1
    /\ again(exp)[1].type = "Product"
    /\ Len(again(again(exp)[1])) = 1
    /\ again(again(exp)[1])[1].type = "FloorDivision"
    /\ simplify_calls(exp, MaxCalls) > Size(exp)
    /\ IsTree(simp)

=============================================================================
